---- MODULE Spec2Model ----
\* Evaluation harness of the sentiment classifier (src/main.py, src/analysis.py).
\* A Python str is modelled as a sequence of one-character strings, so that
\* strip() and lower() are computed character by character.
EXTENDS Integers, Sequences, FiniteSets, TLC

\* Longest data file and longest labels file, in raw lines.
MaxLines == 2

\* ---------------------------------------------------------------- strings

Whitespace == {" ", "\n"}

UpperCase == <<"A", "E", "G", "I", "L", "N", "O", "P", "R", "S", "T", "U", "V">>

LowerCase == <<"a", "e", "g", "i", "l", "n", "o", "p", "r", "s", "t", "u", "v">>

\* str.lower() on one character
lower_char(c) ==
    IF \E i \in 1..Len(UpperCase) : UpperCase[i] = c
    THEN LowerCase[CHOOSE i \in 1..Len(UpperCase) : UpperCase[i] = c]
    ELSE c

\* str.lower()
lower(s) == [i \in 1..Len(s) |-> lower_char(s[i])]

RECURSIVE lstrip(_)
lstrip(s) ==
    IF s # <<>> /\ Head(s) \in Whitespace THEN lstrip(Tail(s)) ELSE s

RECURSIVE rstrip(_)
rstrip(s) ==
    IF s # <<>> /\ s[Len(s)] \in Whitespace
    THEN rstrip(SubSeq(s, 1, Len(s) - 1))
    ELSE s

\* str.strip()
strip(s) == rstrip(lstrip(s))

\* truth value of a str
truthy(s) == s # <<>>

\* ------------------------------------------------------------ enumerations

POSITIVE == <<"p", "o", "s", "i", "t", "i", "v", "e">>

NEGATIVE == <<"n", "e", "g", "a", "t", "i", "v", "e">>

NEUTRAL == <<"n", "e", "u", "t", "r", "a", "l">>

\* the values of the Enum Labels
Labels == {POSITIVE, NEGATIVE, NEUTRAL}

Star1 == <<"1", " ", "s", "t", "a", "r">>

Star2 == <<"2", " ", "s", "t", "a", "r", "s">>

Star3 == <<"3", " ", "s", "t", "a", "r", "s">>

Star4 == <<"4", " ", "s", "t", "a", "r", "s">>

Star5 == <<"5", " ", "s", "t", "a", "r", "s">>

\* a label the classifier's contract does not allow
Star6 == <<"6", " ", "s", "t", "a", "r", "s">>

\* ------------------------------------------------------------ collections

Range(s) == {s[i] : i \in DOMAIN s}

Min(a, b) == IF a <= b THEN a ELSE b

\* collections.Counter(xs): the elements that occur, each with its count
Counter(xs) ==
    [x \in Range(xs) |-> Cardinality({i \in DOMAIN xs : xs[i] = x})]

\* Counter.__getitem__: a missing key counts 0
counter_get(c, k) == IF k \in DOMAIN c THEN c[k] ELSE 0

\* sorted() of a set of integers
RECURSIVE sorted(_)
sorted(S) ==
    IF S = {} THEN <<>>
    ELSE LET m == CHOOSE x \in S : \A y \in S : x <= y
         IN  <<m>> \o sorted(S \ {m})

RECURSIVE Sum(_)
Sum(xs) == IF xs = <<>> THEN 0 ELSE Head(xs) + Sum(Tail(xs))

\* the k-th smallest element of a sequence of integers
kth(xs, k) ==
    CHOOSE v \in Range(xs) :
        /\ Cardinality({i \in DOMAIN xs : xs[i] < v}) < k
        /\ k <= Cardinality({i \in DOMAIN xs : xs[i] <= v})

\* round(score, 4): score in units of 10^-5, result in units of 10^-4; a tie
\* (exactly representable in binary, such as 0.03125) goes to the even digit
round4(score) ==
    LET q == score \div 10
        r == score % 10
    IN  IF r < 5 THEN q
        ELSE IF r > 5 THEN q + 1
        ELSE IF q % 2 = 0 THEN q ELSE q + 1

\* --------------------------------------------------------- convert_to_readable

\* variant: a dict lookup with a default category instead of a KeyError
star_to_sentiment_default ==
    [t \in {Star1, Star2, Star3, Star4, Star5, Star6} |->
        IF t \in {Star1, Star2} THEN NEGATIVE
        ELSE IF t \in {Star4, Star5} THEN POSITIVE ELSE NEUTRAL]

\* the dict star_to_sentiment of convert_to_readable
star_to_sentiment ==
    (Star1 :> NEGATIVE) @@ (Star2 :> NEGATIVE) @@ (Star3 :> NEUTRAL)
        @@ (Star4 :> POSITIVE) @@ (Star5 :> POSITIVE)

\* variant: the texts paired with the predictions in the opposite order
convert_to_readable_reversed(p, t) ==
    LET n == Min(Len(t), Len(p))
    IN  IF \E i \in 1..n : p[i].label \notin DOMAIN star_to_sentiment
        THEN [raised |-> "KeyError", value |-> <<>>]
        ELSE [raised |-> "",
              value |-> [i \in 1..n |->
                          [text |-> t[n + 1 - i],
                           label |-> star_to_sentiment[p[i].label],
                           confidence |-> round4(p[i].score)]]]

\* convert_to_readable(predicts, texts): zip stops at the shorter list; a
\* label that is no key of the dict raises KeyError
convert_to_readable(p, t) ==
    LET n == Min(Len(t), Len(p))
    IN  IF \E i \in 1..n : p[i].label \notin DOMAIN star_to_sentiment
        THEN [raised |-> "KeyError", value |-> <<>>]
        ELSE [raised |-> "",
              value |-> [i \in 1..n |->
                          [text |-> t[i],
                           label |-> star_to_sentiment[p[i].label],
                           confidence |-> round4(p[i].score)]]]

\* -------------------------------------------------------------- analysis.py

\* the dict star_to_number of analyze_predictions_distribution
star_to_number ==
    (Star1 :> 1) @@ (Star2 :> 2) @@ (Star3 :> 3) @@ (Star4 :> 4) @@ (Star5 :> 5)

\* the dict star_to_sentiment of analyze_predictions_distribution
analysis_star_to_sentiment ==
    (Star1 :> NEGATIVE) @@ (Star2 :> NEGATIVE) @@ (Star3 :> NEUTRAL)
        @@ (Star4 :> POSITIVE) @@ (Star5 :> POSITIVE)

\* variant: only the categories that occur, as the star breakdown does
categories_list_present(categories) ==
    SelectSeq(<<NEGATIVE, NEUTRAL, POSITIVE>>,
              LAMBDA c : c \in Range(categories))

\* categories_list of _print_statistics and _create_plots
categories_list(categories) == <<NEGATIVE, NEUTRAL, POSITIVE>>

\* what _create_plots hands to the plotting library
create_plots(numeric_scores, categories) ==
    LET star_counts == Counter(numeric_scores)
        stars == sorted(DOMAIN star_counts)
        category_counts == Counter(categories)
        cats == categories_list(categories)
    IN  [kind |-> "plot",
         stars |-> stars,
         counts |-> [i \in 1..Len(stars) |-> star_counts[stars[i]]],
         categories_list |-> cats,
         counts_cat |-> [i \in 1..Len(cats) |->
                           counter_get(category_counts, cats[i])]]

\* _print_statistics: the lines printed, and ZeroDivisionError when a
\* percentage is computed with total = 0
print_statistics(numeric_scores, categories, total) ==
    LET star_counts == Counter(numeric_scores)
        category_counts == Counter(categories)
        stars == sorted(DOMAIN star_counts)
        cats == categories_list(categories)
        n == Len(numeric_scores)
        head == <<[kind |-> "statistics"], [kind |-> "by_star"]>>
        star_lines ==
            [i \in 1..Len(stars) |->
                [kind |-> "star", key |-> stars[i],
                 count |-> star_counts[stars[i]], total |-> total]]
        category_lines ==
            [i \in 1..Len(cats) |->
                [kind |-> "category", key |-> cats[i],
                 count |-> counter_get(category_counts, cats[i]),
                 total |-> total]]
        tail ==
            << [kind |-> "total", total |-> total],
               [kind |-> "mean", sum |-> Sum(numeric_scores), n |-> n],
               [kind |-> "median", n |-> n,
                twice |-> IF n = 0 THEN 0
                          ELSE kth(numeric_scores, (n + 1) \div 2)
                               + kth(numeric_scores, n \div 2 + 1)] >>
    IN  IF total = 0 /\ stars # <<>>
        THEN [raised |-> "ZeroDivisionError", printed |-> head]
        ELSE IF total = 0 /\ cats # <<>>
        THEN [raised |-> "ZeroDivisionError",
              printed |-> head \o star_lines \o <<[kind |-> "by_category"]>>]
        ELSE [raised |-> "",
              printed |-> head \o star_lines \o <<[kind |-> "by_category"]>>
                          \o category_lines \o tail]

\* analyze_predictions_distribution
analyze_predictions_distribution(p) ==
    LET banner == <<[kind |-> "analysis"]>>
        star_predictions == [i \in 1..Len(p) |-> p[i].label]
    IN  IF \E i \in 1..Len(p) : star_predictions[i] \notin DOMAIN star_to_number
        THEN [raised |-> "KeyError", printed |-> banner]
        ELSE
          LET numeric_scores ==
                  [i \in 1..Len(p) |-> star_to_number[star_predictions[i]]]
              categories ==
                  [i \in 1..Len(p) |->
                      analysis_star_to_sentiment[star_predictions[i]]]
              stats == print_statistics(numeric_scores, categories, Len(p))
          IN  [raised |-> stats.raised,
               printed |-> banner
                           \o <<create_plots(numeric_scores, categories)>>
                           \o stats.printed]

\* analyze_confidence_scores: the histogram input and the four statistics
\* (numpy raises ValueError for the minimum of an empty array)
analyze_confidence_scores(p) ==
    LET confidence_scores == [i \in 1..Len(p) |-> p[i].score]
        n == Len(p)
        banner == <<[kind |-> "confidence"],
                    [kind |-> "hist", scores |-> confidence_scores],
                    [kind |-> "confidence_mean",
                     sum |-> Sum(confidence_scores), n |-> n],
                    [kind |-> "confidence_median", n |-> n,
                     twice |-> IF n = 0 THEN 0
                               ELSE kth(confidence_scores, (n + 1) \div 2)
                                    + kth(confidence_scores, n \div 2 + 1)]>>
    IN  IF n = 0
        THEN [raised |-> "ValueError", printed |-> banner]
        ELSE [raised |-> "",
              printed |-> banner \o
                <<[kind |-> "confidence_min",
                   value |-> kth(confidence_scores, 1)],
                  [kind |-> "confidence_max",
                   value |-> kth(confidence_scores, n)]>>]

\* ------------------------------------------------------------------ inputs

SeqsUpTo(S, n) == UNION {[1..k -> S] : k \in 0..n}

\* raw lines of the data file, as readlines() returns them
DataLine == {<<"a", "\n">>, <<" ", "b", "\n">>, <<" ", "\n">>}

\* raw lines of the labels file
GoldLine ==
    { <<"p", "o", "s", "i", "t", "i", "v", "e", "\n">>,
      <<" ", "N", "E", "G", "A", "T", "I", "V", "E", " ", "\n">>,
      <<"n", "e", "u", "t", "r", "a", "l", "l", "\n">>,
      <<"\n">> }

\* what the classifier may return for one phrase; score in units of 10^-5
Prediction ==
    { [label |-> Star1, score |-> 88126],
      [label |-> Star2, score |-> 51000],
      [label |-> Star3, score |-> 40004],
      [label |-> Star4, score |-> 3125],
      [label |-> Star5, score |-> 92000],
      [label |-> Star6, score |-> 70000] }

\* ------------------------------------------------------------------- state

VARIABLES
    files,              \* which of data_path / labels_path exist
    data_file,          \* raw lines of the data file, once read
    texts,              \* `lines` of sentiment_classification
    predicts,           \* the classifier's output
    readable_predicts,  \* result of convert_to_readable
    labels_file,        \* raw lines of the labels file, once read
    gold,               \* `lines` of count_metrics
    good_preds_count,   \* match counter of count_metrics
    accuracy,           \* <<>> until computed, then <<[num, den]>>
    out,                \* everything printed or plotted so far
    stages,             \* the stages the run has completed, in order
    failure             \* "" or the exception that ended the run

vars ==
    <<files, data_file, texts, predicts, readable_predicts, labels_file, gold,
      good_preds_count, accuracy, out, stages, failure>>

\* the stage the run is in
pc == IF stages = <<>> THEN "Init" ELSE stages[Len(stages)]

Init ==
    /\ files \in [data : BOOLEAN, labels : BOOLEAN]
    /\ data_file = <<>>
    /\ texts = <<>>
    /\ predicts = <<>>
    /\ readable_predicts = <<>>
    /\ labels_file = <<>>
    /\ gold = <<>>
    /\ good_preds_count = 0
    /\ accuracy = <<>>
    /\ out = <<>>
    /\ stages = <<>>
    /\ failure = ""

\* an exception leaves everything but the output as it was and ends the run
\* variant: an exception that is swallowed: the run does not end
Raise_and_continue(exc, printed) ==
    /\ failure' = exc
    /\ out' = out \o printed
    /\ stages' = stages

Raise(exc, printed) ==
    /\ failure' = exc
    /\ out' = out \o printed
    /\ stages' = Append(stages, "Failed")

\* sentiment_classification, up to the start message
Start ==
    /\ pc = "Init"
    /\ \/ /\ ~files.data
          /\ Raise("MissingData", <<>>)
       \/ /\ files.data /\ ~files.labels
          /\ Raise("MissingLabels", <<>>)
       \/ /\ files.data /\ files.labels
          /\ Raise("DownloadFailed", <<>>)
       \/ /\ files.data /\ files.labels
          /\ out' = Append(out, [kind |-> "start"])
          /\ stages' = Append(stages, "Started")
          /\ failure' = failure
    /\ UNCHANGED <<files, data_file, texts, predicts, readable_predicts,
                   labels_file, gold, good_preds_count, accuracy>>

\* the non-blank lines of a file, stripped
read_lines(file) ==
    LET kept == SelectSeq(file, LAMBDA line : truthy(strip(line)))
    IN  [i \in 1..Len(kept) |-> strip(kept[i])]

\* reading the data file and classifying its phrases
Load ==
    /\ pc = "Started"
    /\ \E file \in SeqsUpTo(DataLine, MaxLines) :
         /\ data_file' = file
         /\ texts' = read_lines(file)
         /\ \E result \in [1..Len(read_lines(file)) -> Prediction] :
              predicts' = result
    /\ stages' = Append(stages, "Loaded")
    /\ UNCHANGED <<files, readable_predicts, labels_file, gold,
                   good_preds_count, accuracy, out, failure>>

\* convert_to_readable(predicts, lines)
MapLabels ==
    /\ pc = "Loaded"
    /\ LET r == convert_to_readable(predicts, texts)
       IN  IF r.raised # ""
           THEN /\ Raise(r.raised, <<>>)
                /\ UNCHANGED readable_predicts
           ELSE /\ readable_predicts' = r.value
                /\ stages' = Append(stages, "LabelsMapped")
                /\ UNCHANGED <<out, failure>>
    /\ UNCHANGED <<files, data_file, texts, predicts, labels_file, gold,
                   good_preds_count, accuracy>>

\* analyze_predictions_distribution(predicts)
Aggregate ==
    /\ pc = "LabelsMapped"
    /\ LET r == analyze_predictions_distribution(predicts)
       IN  IF r.raised # ""
           THEN Raise(r.raised, r.printed)
           ELSE /\ out' = out \o r.printed
                /\ stages' = Append(stages, "Aggregated")
                /\ UNCHANGED failure
    /\ UNCHANGED <<files, data_file, texts, predicts, readable_predicts,
                   labels_file, gold, good_preds_count, accuracy>>

\* ------------------------------------------------------------ count_metrics

\* variant: a validator that accepts every line
check_labels_accept_all(labels) == [raised |-> "", value |-> TRUE]

\* check_labels: Labels(label) raises ValueError for a string that is no
\* value of the Enum
RECURSIVE check_labels(_)
check_labels(labels) ==
    IF labels = <<>> THEN [raised |-> "", value |-> TRUE]
    ELSE IF Head(labels) \notin Labels
         THEN [raised |-> "ValueError", value |-> FALSE]
    ELSE IF Head(labels) # POSITIVE /\ Head(labels) # NEGATIVE
            /\ Head(labels) # NEUTRAL
         THEN [raised |-> "", value |-> FALSE]
    ELSE check_labels(Tail(labels))

\* the list comprehension of count_metrics: non-blank lines, stripped, lowered
label_lines(file) ==
    LET kept == SelectSeq(file, LAMBDA line : truthy(strip(line)))
    IN  [i \in 1..Len(kept) |-> lower(strip(kept[i]))]

\* variant: the counter incremented on a mismatch instead of a match
count_loop_mismatches(lines, data) ==
    LET n == Min(Len(lines), Len(data))
    IN  [raised |-> IF Len(lines) > Len(data) THEN "IndexError" ELSE "",
         printed |-> [i \in 1..n |->
                        [kind |-> "item", text |-> data[i].text,
                         predict |-> data[i].label, label |-> lines[i]]],
         count |-> Cardinality({i \in 1..n : lines[i] # data[i].label})]

\* the loop of count_metrics: data[i] raises IndexError at the first gold
\* line that has no record
count_loop(lines, data) ==
    LET n == Min(Len(lines), Len(data))
    IN  [raised |-> IF Len(lines) > Len(data) THEN "IndexError" ELSE "",
         printed |-> [i \in 1..n |->
                        [kind |-> "item", text |-> data[i].text,
                         predict |-> data[i].label, label |-> lines[i]]],
         count |-> Cardinality({i \in 1..n : lines[i] = data[i].label})]

\* the results banner, then count_metrics up to check_labels
ValidateGold ==
    /\ pc = "Aggregated"
    /\ \E file \in SeqsUpTo(GoldLine, MaxLines) :
         LET lines == label_lines(file)
             r == check_labels(lines)
             banner == <<[kind |-> "results"]>>
         IN  /\ labels_file' = file
             /\ gold' = lines
             /\ IF r.raised # "" THEN Raise(r.raised, banner)
                ELSE IF ~r.value THEN Raise("ValueError", banner)
                ELSE /\ out' = out \o banner
                     /\ stages' = Append(stages, "GoldValidated")
                     /\ UNCHANGED failure
    /\ UNCHANGED <<files, data_file, texts, predicts, readable_predicts,
                   good_preds_count, accuracy>>

\* the loop of count_metrics over the gold lines
Score ==
    /\ pc = "GoldValidated"
    /\ LET r == count_loop(gold, readable_predicts)
       IN  /\ good_preds_count' = r.count
           /\ IF r.raised # "" THEN Raise(r.raised, r.printed)
              ELSE /\ out' = out \o r.printed
                   /\ stages' = Append(stages, "Scored")
                   /\ UNCHANGED failure
    /\ UNCHANGED <<files, data_file, texts, predicts, readable_predicts,
                   labels_file, gold, accuracy>>

\* the accuracy expression of sentiment_classification, as a fraction
accuracy_of(count, data) ==
    IF data # <<>> THEN [num |-> count, den |-> Len(data)]
    ELSE [num |-> 0, den |-> 1]

\* the accuracy and the closing lines
Report ==
    /\ pc = "Scored"
    /\ LET a == accuracy_of(good_preds_count, readable_predicts)
       IN  /\ accuracy' = <<a>>
           /\ out' = out \o <<[kind |-> "accuracy", num |-> a.num,
                               den |-> a.den]>>
    /\ stages' = Append(stages, "Reported")
    /\ UNCHANGED <<files, data_file, texts, predicts, readable_predicts,
                   labels_file, gold, good_preds_count, failure>>

Next ==
    \/ Start
    \/ Load
    \/ MapLabels
    \/ Aggregate
    \/ ValidateGold
    \/ Score
    \/ Report

Spec == Init /\ [][Next]_vars

\* ------------------------------------------------------------- properties

\* what the three kinds of data line are expected to yield
ExpectedText(line) ==
    CASE line = <<"a", "\n">> -> <<"a">>
      [] line = <<" ", "b", "\n">> -> <<"b">>
      [] OTHER -> <<>>

ExpectedTexts ==
    LET kept == SelectSeq(data_file, LAMBDA l : ExpectedText(l) # <<>>)
    IN  [i \in 1..Len(kept) |-> ExpectedText(kept[i])]

\* a gold line after trimming and lower-casing, written out per line
Canonical(line) ==
    CASE line = <<"p", "o", "s", "i", "t", "i", "v", "e", "\n">> -> POSITIVE
      [] line = <<" ", "N", "E", "G", "A", "T", "I", "V", "E", " ", "\n">>
            -> NEGATIVE
      [] line = <<"n", "e", "u", "t", "r", "a", "l", "l", "\n">>
            -> <<"n", "e", "u", "t", "r", "a", "l", "l">>
      [] OTHER -> <<>>

\* the i-th non-blank gold line, trimmed and lower-cased
ExpectedGold ==
    LET kept == SelectSeq(labels_file, LAMBDA l : Canonical(l) # <<>>)
    IN  [i \in 1..Len(kept) |-> Canonical(kept[i])]

\* the category of a star token
ExpectedCategory(t) ==
    CASE t \in {Star1, Star2} -> NEGATIVE
      [] t = Star3 -> NEUTRAL
      [] t \in {Star4, Star5} -> POSITIVE
      [] OTHER -> <<>>

ExpectedStar(t) ==
    CASE t = Star1 -> 1 [] t = Star2 -> 2 [] t = Star3 -> 3
      [] t = Star4 -> 4 [] t = Star5 -> 5 [] OTHER -> 0

FiveTokens == {Star1, Star2, Star3, Star4, Star5}

Reached(stage) == stage \in Range(stages)

\* the labels file has been read
GoldRead == Reached("GoldValidated") \/ failure = "ValueError"

OutOfKind(k) == SelectSeq(out, LAMBDA l : l.kind = k)

ItemLines == OutOfKind("item")

\* the stages completed, without the start-up step and the failure marker
Completed == SelectSeq(stages, LAMBDA s : s \notin {"Started", "Failed"})

IsPrefix(s, t) == Len(s) <= Len(t) /\ s = SubSeq(t, 1, Len(s))

\* C1: when the validated gold labels and the records differ in number,
\* scoring fails with an alignment error before any pair is compared: no
\* match count or accuracy over a prefix, no out-of-range index.
C1_AlignmentChecked ==
    (Reached("GoldValidated") /\ Len(gold) # Len(readable_predicts)) =>
        /\ ~Reached("Scored")
        /\ failure # "IndexError"
        /\ ItemLines = <<>>
        /\ accuracy = <<>>

\* C2: for n > 0 records and n gold labels the reported accuracy is the
\* number of positions i with records[i].label = gold[i], over n, gold[i]
\* being the i-th non-blank gold line trimmed and lower-cased; it is in [0,1].
C2_Accuracy ==
    LET n == Len(readable_predicts)
        matches == {i \in 1..n : readable_predicts[i].label = ExpectedGold[i]}
    IN  (pc = "Reported" /\ n > 0 /\ Len(ExpectedGold) = n) =>
            /\ accuracy = <<[num |-> Cardinality(matches), den |-> n]>>
            /\ accuracy[1].num \in 0..accuracy[1].den
            /\ OutOfKind("accuracy") =
                 <<[kind |-> "accuracy", num |-> Cardinality(matches),
                    den |-> n]>>

C2_Witness ==
    /\ pc = "Reported"
    /\ Len(readable_predicts) = 2
    /\ Len(labels_file) = 2
    /\ labels_file[2] = <<" ", "N", "E", "G", "A", "T", "I", "V", "E", " ", "\n">>
    /\ readable_predicts[1].label = NEUTRAL
    /\ readable_predicts[2].label = NEGATIVE
    /\ accuracy = <<[num |-> 1, den |-> 2]>>

\* C3: gold validation is all-or-nothing: one bad non-blank line (trimmed,
\* lower-cased) anywhere fails the run with the format error before any pair
\* is compared; when every line is a label in any letter case, it succeeds.
C3_AllOrNothing ==
    GoldRead =>
        IF \E i \in 1..Len(ExpectedGold) : ExpectedGold[i] \notin Labels
        THEN /\ pc = "Failed"
             /\ failure = "ValueError"
             /\ good_preds_count = 0
             /\ ItemLines = <<>>
             /\ accuracy = <<>>
        ELSE /\ failure # "ValueError"
             /\ Reached("GoldValidated")
             /\ gold = ExpectedGold

C3_Witness ==
    /\ failure = "ValueError"
    /\ Len(labels_file) = 2
    /\ Canonical(labels_file[1]) = POSITIVE
    /\ Canonical(labels_file[2]) \notin Labels \cup {<<>>}

\* C4: the mapper sends 1 star and 2 stars to negative, 3 stars to neutral,
\* 4 stars and 5 stars to positive, and nothing else; a prediction with any
\* other label fails the conversion with an error and yields no record.
C4_LabelMapper ==
    /\ DOMAIN star_to_sentiment = FiveTokens
    /\ {star_to_sentiment[t] : t \in DOMAIN star_to_sentiment} = Labels
    /\ (Reached("Loaded") /\ pc # "Loaded") =>
          IF \A i \in 1..Len(predicts) : predicts[i].label \in FiveTokens
          THEN /\ failure # "KeyError"
               /\ Len(readable_predicts) = Len(predicts)
               /\ \A i \in 1..Len(predicts) :
                    readable_predicts[i].label
                        = ExpectedCategory(predicts[i].label)
          ELSE /\ pc = "Failed"
               /\ failure = "KeyError"
               /\ readable_predicts = <<>>

C4_Witness ==
    /\ pc = "LabelsMapped"
    /\ Len(predicts) = 2
    /\ predicts[1].label = Star3
    /\ predicts[2].label = Star1
    /\ readable_predicts[1].label = NEUTRAL
    /\ readable_predicts[2].label = NEGATIVE

\* C5: with no records (and no gold labels) the run ends with accuracy 0.0
\* and divides by zero nowhere.
C5_EmptyBatchScoresZero ==
    (Reached("Loaded") /\ texts = <<>>) =>
        /\ failure # "ZeroDivisionError"
        /\ (pc = "Failed" => ExpectedGold # <<>>)
        /\ (pc = "Reported" => accuracy = <<[num |-> 0, den |-> 1]>>)

C6_CodeOrder ==
    /\ IsPrefix(Completed,
                <<"Loaded", "LabelsMapped", "Aggregated", "GoldValidated",
                  "Scored", "Reported">>)
    /\ \A i \in 1..Len(stages) : stages[i] = "Failed" => i = Len(stages)
    /\ (failure # "") = (pc = "Failed")

C7_NoPartialReport ==
    pc = "Failed" => \A i \in 1..Len(out) : out[i].kind = "start"

\* C8: a run that succeeds has emitted the confidence statistics.
C8_ConfidenceReported ==
    pc = "Reported" =>
        /\ OutOfKind("confidence_mean") # <<>>
        /\ OutOfKind("confidence_median") # <<>>
        /\ OutOfKind("confidence_min") # <<>>
        /\ OutOfKind("confidence_max") # <<>>

C10_Positional ==
    Reached("LabelsMapped") =>
        /\ texts = ExpectedTexts
        /\ Len(predicts) = Len(texts)
        /\ Len(readable_predicts) = Len(texts)
        /\ \A i \in 1..Len(texts) :
             /\ readable_predicts[i].text = texts[i]
             /\ readable_predicts[i].label = ExpectedCategory(predicts[i].label)

\* C10: the records correspond to the inputs position by position: n texts
\* and n predictions give n records, record i carrying texts[i] and the
\* category of predictions[i].label; the two input lists are not changed.
C10_Records ==
    /\ []C10_Positional
    /\ [][Reached("Loaded") => texts' = texts /\ predicts' = predicts]_vars

C10_Witness ==
    /\ pc = "LabelsMapped"
    /\ texts = << <<"b">>, <<"a">> >>
    /\ predicts[1].label = Star5
    /\ predicts[2].label = Star2
    /\ readable_predicts[1].text = <<"b">>
    /\ readable_predicts[2].label = NEGATIVE

====
